---- MODULE Spec2Model ----
(***************************************************************************)
(* Model of github.com/thediveo/cpus: CPU Sets (bit strings of uint64      *)
(* words), CPU Lists (ranges) and the Affinity size-probing protocol with  *)
(* its process-wide size cache.                                            *)
(***************************************************************************)
EXTENDS Integers, Sequences, FiniteSets, TLC

VARIABLES
    setsize,      \* the package-level atomic.Uint64 size cache (words)
    kernelWords,  \* words the kernel's cpumask needs (fixed at boot)
    cpusAllowed,  \* the kernel's affinity mask of each task (kernelWords words)
    pc,           \* per caller: position inside Affinity
    tid,          \* per caller: the tid argument of the running call
    setlenStart,  \* per caller: local setlenStart
    setlen,       \* per caller: local setlen
    probes,       \* per caller: number of SYS_SCHED_GETAFFINITY calls issued
    buf,          \* per caller: local set after a successful syscall
    ret,          \* per caller: returned Set (with its length in words) and error
    pin,          \* per caller: its last SetAffinity call and the error returned
    affs,         \* per caller: a Set kept from an earlier Affinity result
    set, set2,    \* operand Sets of the pure Set operations
    l1, l2,       \* operand Lists of the pure List operations
    text,         \* operand text of NewList
    op,           \* the last pure operation applied, with its arguments
    out           \* its result

affvars  == <<setsize, kernelWords, cpusAllowed, pc, tid, setlenStart, setlen,
              probes, buf, ret, pin, affs>>
operands == <<set, set2, l1, l2, text>>
purevars == <<set, set2, l1, l2, text, op, out>>
vars     == <<setsize, kernelWords, cpusAllowed, pc, tid, setlenStart, setlen,
              probes, buf, ret, pin, affs, set, set2, l1, l2, text, op, out>>

\* ---------------------------------------------------------------- bounds
NumCallers     == 2   \* concurrent goroutines calling Affinity
MaxKernelWords == 3   \* the kernel cpumask needs 1..MaxKernelWords words

Callers == 1..NumCallers

\* ------------------------------------------------------- uint64 words
\* A uint64 is held as the set of its one-bits (bit positions 0..63).
bitsperword == 64

Bits    == 0..(bitsperword - 1)
Zero    == {}
One     == {0}
AllOnes == Bits

\* The two ends of a word.
EdgeBits == {0, 63}

\* a & b (computed from the bits of b)
And(a, b) == {x \in b : x \in a}
Or(a, b)  == a \cup b

\* w << 1 on uint64: the bit shifted out of position 63 is lost.
Shl1(w) == {b + 1 : b \in w} \cap Bits

MinBit(w) == CHOOSE b \in w : \A c \in w : b <= c
MaxBit(w) == CHOOSE b \in w : \A c \in w : c <= b

\* w - 1 on uint64 (0 - 1 wraps to all ones).
Dec(w) == IF w = Zero THEN AllOnes
          ELSE (w \ {MinBit(w)}) \cup {b \in Bits : b < MinBit(w)}

\* bits.Len64
Len64(w) == IF w = Zero THEN 0 ELSE MaxBit(w) + 1

\* Drop the zero words at the end of a sequence of words.
RECURSIVE TrimZeros(_)
TrimZeros(ws) ==
    IF ws = <<>> \/ ws[Len(ws)] # Zero THEN ws
    ELSE TrimZeros(SubSeq(ws, 1, Len(ws) - 1))

\* --------------------------------------------------- slice lengths
\* AddRange multiplies lengths by bitsperword, so lengths leave the range of
\* machine-size model integers after a few calls. A length is therefore held
\* as its digits in base bitsperword, least significant first, without
\* leading zeros (<<>> is 0).
RECURSIVE BigOf(_)
BigOf(n) == IF n = 0 THEN <<>>
            ELSE <<n % bitsperword>> \o BigOf(n \div bitsperword)

RECURSIVE BigLessFrom(_, _, _)
BigLessFrom(a, b, i) ==
    IF i = 0 THEN FALSE
    ELSE IF a[i] # b[i] THEN a[i] < b[i]
    ELSE BigLessFrom(a, b, i - 1)

BigLess(a, b) == IF Len(a) # Len(b) THEN Len(a) < Len(b)
                 ELSE BigLessFrom(a, b, Len(a))

BigMax(a, b) == IF BigLess(a, b) THEN b ELSE a

\* n * bitsperword
TimesBitsPerWord(a) == IF a = <<>> THEN <<>> ELSE <<0>> \o a

\* make([]uint64, n) panics (makeslice: len out of range) when n * 8 bytes
\* exceed the runtime's maxAlloc of 2^48 bytes (linux/amd64), that is when
\* n > 2^45 = 32 * 64^7. Smaller requests are taken to succeed.
MaxAllocWords == <<0, 0, 0, 0, 0, 0, 0, 32>>

\* ------------------------------------------------------------------ Set
\* type Set []uint64: len is the slice length in words; words holds the
\* words s[0..k-1] up to the last non-zero one (as a sequence, s[idx] is
\* words[idx + 1]); the remaining len - k words are zero.
EmptySet == [len |-> <<>>, words |-> <<>>]

Panic(msg) == [panic |-> msg]
IsPanic(v) == "panic" \in DOMAIN v

setBitIndex(cpu) == cpu \div bitsperword

\* The mask of the bit above the CPU's.
setBitMaskNext(cpu) == {(cpu + 1) % bitsperword}

\* 1 << (cpu % bitsperword)
setBitMask(cpu) == {cpu % bitsperword}

\* idx < len(s)
InSlice(s, idx) == idx < Len(s.words) \/ BigLess(BigOf(idx), s.len)

\* s[idx]; an index beyond the slice is a run-time panic, shown here as a
\* value that is no word.
Word(s, idx) ==
    IF idx < Len(s.words) THEN s.words[idx + 1]
    ELSE IF BigLess(BigOf(idx), s.len) THEN Zero
    ELSE "index out of range"

IsSet(s, cpu) ==
    IF ~BigLess(BigOf(cpu), TimesBitsPerWord(s.len)) THEN FALSE
    ELSE And(Word(s, setBitIndex(cpu)), setBitMask(cpu)) # Zero

\* The loop with = written for |=.
AddRangeWordAssign(w, idx, from, to) ==
    LET m == UNION {setBitMask(cpu) :
                      cpu \in {c \in from..to : setBitIndex(c) = idx}}
    IN IF m = Zero THEN w ELSE m

\* The for loop of AddRange on word idx of the copy: every cpu of from..to
\* that lies in the word ors its mask into it.
AddRangeWord(w, idx, from, to) ==
    Or(w, UNION {setBitMask(cpu) :
                   cpu \in {c \in from..to : setBitIndex(c) = idx}})

\* AddRange without its argument check.
IsInvalidRangeNever(from, to) == FALSE

\* from > to: the range is no range.
IsInvalidRange(from, to) == from > to

\* setLen is the length of the copy; k is how many of its words are stored:
\* those of s and those up to the word of to.
AddRange(s, from, to) ==
    IF IsInvalidRange(from, to) THEN Panic("invalid range")
    ELSE LET setLen == BigMax(BigOf(to \div bitsperword + 1),
                              TimesBitsPerWord(s.len))
             k      == IF setBitIndex(to) + 1 > Len(s.words)
                       THEN setBitIndex(to) + 1 ELSE Len(s.words)
         IN IF BigLess(MaxAllocWords, setLen)
            THEN Panic("makeslice: len out of range")
            ELSE [len   |-> setLen,
                  words |-> [i \in 1..k |->
                               AddRangeWord(IF i <= Len(s.words)
                                            THEN s.words[i] ELSE Zero,
                                            i - 1, from, to)]]

\* Two words that both have a bit set, wherever.
WordsBothNonZero(a, b) == a # Zero /\ b # Zero

\* s[idx]&another[idx] != 0
WordsShareCpu(a, b) == And(a, b) # Zero

\* The loop of IsOverlapping from word idx on, over the words both Sets have.
RECURSIVE SetIsOverlappingFrom(_, _, _)
SetIsOverlappingFrom(s, another, idx) ==
    IF ~(InSlice(s, idx) /\ InSlice(another, idx)) THEN FALSE
    ELSE IF WordsShareCpu(Word(s, idx), Word(another, idx)) THEN TRUE
    ELSE SetIsOverlappingFrom(s, another, idx + 1)

SetIsOverlapping(s, another) == SetIsOverlappingFrom(s, another, 0)

\* min(len(s), len(another))
BigMin(a, b) == IF BigLess(b, a) THEN b ELSE a

\* The words or-ed where they are to be and-ed.
OverlapWordOr(a, b) == Or(a, b)

\* s[idx] & another[idx]
OverlapWord(a, b) == And(a, b)

\* s.Overlap(another): a new Set of min(len(s), len(another)) words. The
\* words beyond the stored words of either operand are zero in the result.
SetOverlap(s, another) ==
    LET k == IF Len(s.words) < Len(another.words)
             THEN Len(s.words) ELSE Len(another.words)
    IN [len   |-> BigMin(s.len, another.len),
        words |-> TrimZeros([i \in 1..k |->
                               OverlapWord(s.words[i], another.words[i])])]

\* Single without the scan of the words after the first non-zero one.
RestIsZeroUnchecked(s, idx) == TRUE

\* Single: the scan for a further non-zero element after the first one.
RECURSIVE RestIsZero(_, _)
RestIsZero(s, idx) ==
    IF ~InSlice(s, idx) THEN TRUE
    ELSE IF Word(s, idx) # Zero THEN FALSE
    ELSE RestIsZero(s, idx + 1)

RECURSIVE SingleFrom(_, _)
SingleFrom(s, idx) ==
    IF ~InSlice(s, idx) THEN [cpu |-> 0, ok |-> FALSE]
    ELSE LET el == Word(s, idx) IN
         IF el # Zero
         THEN IF el = Zero \/ And(el, Dec(el)) # Zero
              THEN [cpu |-> 0, ok |-> FALSE]
              ELSE IF RestIsZero(s, idx + 1)
                   THEN [cpu |-> Len64(el) - 1 + idx * 64, ok |-> TRUE]
                   ELSE [cpu |-> 0, ok |-> FALSE]
         ELSE SingleFrom(s, idx + 1)

Single(s) == IF s.len = <<>> THEN [cpu |-> 0, ok |-> FALSE]
             ELSE SingleFrom(s, 0)

\* ------------------------------------------------------------- Set.List
\* The scan position of List: cpuno, cpuwordidx and the one-bit cpuwordmask.
Pos(cpuno, idx, mask) == [cpuno |-> cpuno, cpuwordidx |-> idx, cpuwordmask |-> mask]

\* "try to find the next set cpu bit, if any, otherwise stop after we've
\* fallen off the MSB end of the cpu mask word"
RECURSIVE NextSetInWord(_, _)
NextSetInWord(s, p) ==
    IF And(Word(s, p.cpuwordidx), p.cpuwordmask) # Zero THEN p
    ELSE LET m == Shl1(p.cpuwordmask) IN
         IF m = Zero THEN Pos(p.cpuno + 1, p.cpuwordidx + 1, One)
         ELSE NextSetInWord(s, Pos(p.cpuno + 1, p.cpuwordidx, m))

\* The fast-forward without advancing the CPU number.
RECURSIVE SkipZeroWordsNoCount(_, _)
SkipZeroWordsNoCount(s, p) ==
    IF p.cpuwordidx < Len(s.words) /\ Word(s, p.cpuwordidx) = Zero
    THEN SkipZeroWordsNoCount(s, Pos(p.cpuno, p.cpuwordidx + 1, p.cpuwordmask))
    ELSE p

\* "fast-forward through completely unset cpu mask words", up to the next
\* non-zero word. Past the last non-zero word the words are zero up to
\* setlen: the loop runs through all of them and ends at setlen (NoWordLeft).
RECURSIVE SkipZeroWords(_, _)
SkipZeroWords(s, p) ==
    IF p.cpuwordidx < Len(s.words) /\ Word(s, p.cpuwordidx) = Zero
    THEN SkipZeroWords(s, Pos(p.cpuno + 64, p.cpuwordidx + 1, p.cpuwordmask))
    ELSE p

\* cpuwordidx >= setlen after the fast-forward from p: p is at the end of
\* the Set or only zero words follow.
NoWordLeft(s, p) == p.cpuwordidx >= Len(s.words)

\* "find the first cpu in it": no end-of-word test, the word is non-zero.
RECURSIVE FirstSet(_, _)
FirstSet(s, p) ==
    IF And(Word(s, p.cpuwordidx), p.cpuwordmask) # Zero THEN p
    ELSE FirstSet(s, Pos(p.cpuno + 1, p.cpuwordidx, Shl1(p.cpuwordmask)))

\* "Move on to the next CPU, handling a word boundary when necessary."
StepOver(p) ==
    LET m == Shl1(p.cpuwordmask) IN
    IF m = Zero THEN Pos(p.cpuno + 1, p.cpuwordidx + 1, One)
    ELSE Pos(p.cpuno + 1, p.cpuwordidx, m)

\* "locate the next unset cpu within the currently inspected cpu mask word":
\* found tells whether an unset bit ended the range inside the word.
RECURSIVE NextUnsetInWord(_, _)
NextUnsetInWord(s, p) ==
    IF And(Word(s, p.cpuwordidx), p.cpuwordmask) = Zero
    THEN [found |-> TRUE, pos |-> p]
    ELSE LET m == Shl1(p.cpuwordmask) IN
         IF m = Zero
         THEN [found |-> FALSE, pos |-> Pos(p.cpuno + 1, p.cpuwordidx + 1, One)]
         ELSE NextUnsetInWord(s, Pos(p.cpuno + 1, p.cpuwordidx, m))

\* "fast-forward through completely set cpu mask words"
RECURSIVE SkipOnesWords(_, _)
SkipOnesWords(s, p) ==
    IF InSlice(s, p.cpuwordidx) /\ Word(s, p.cpuwordidx) = AllOnes
    THEN SkipOnesWords(s, Pos(p.cpuno + 64, p.cpuwordidx + 1, p.cpuwordmask))
    ELSE p

\* "find the first cpu in it that is unset": the word is not all ones.
RECURSIVE FirstUnset(_, _)
FirstUnset(s, p) ==
    IF And(Word(s, p.cpuwordidx), p.cpuwordmask) = Zero THEN p
    ELSE FirstUnset(s, Pos(p.cpuno + 1, p.cpuwordidx, Shl1(p.cpuwordmask)))

\* One pass of the loop labelled findNextCPUInWord, entered at position p
\* with the ranges found so far.
RECURSIVE ListFrom(_, _, _)
ListFrom(s, p, cpulist) ==
    LET p1 == IF p.cpuwordmask # One THEN NextSetInWord(s, p) ELSE p
        p2 == SkipZeroWords(s, p1)
    IN
    IF NoWordLeft(s, p2) THEN cpulist
    ELSE
      LET p3      == FirstSet(s, p2)
          cpufrom == p3.cpuno
          p4      == StepOver(p3)
          inword  == IF p4.cpuwordmask # One THEN NextUnsetInWord(s, p4)
                     ELSE [found |-> FALSE, pos |-> p4]
      IN
      IF inword.found
      THEN ListFrom(s, inword.pos,
                    Append(cpulist, <<cpufrom, inword.pos.cpuno - 1>>))
      ELSE
        LET p5 == SkipOnesWords(s, inword.pos) IN
        IF ~InSlice(s, p5.cpuwordidx)
        THEN Append(cpulist, <<cpufrom, p5.cpuno - 1>>)
        ELSE LET p6 == FirstUnset(s, p5) IN
             ListFrom(s, p6, Append(cpulist, <<cpufrom, p6.cpuno - 1>>))

List(s) == ListFrom(s, Pos(0, 0, One), <<>>)

\* ------------------------------------------------------------- List.Set
\* The loop of List.Set: the i-th pass adds range l[len(l)-i-1] (0-based),
\* the highest range first; a panic inside AddRange ends the call.
RECURSIVE ListSetFrom(_, _, _)
ListSetFrom(l, i, s) ==
    IF i >= Len(l) THEN s
    ELSE LET r    == l[Len(l) - i]
             next == AddRange(s, r[1], r[2])
         IN IF IsPanic(next) THEN next ELSE ListSetFrom(l, i + 1, next)

ListSet(l) == IF Len(l) = 0 THEN EmptySet ELSE ListSetFrom(l, 0, EmptySet)

\* ------------------------------------------------------ List operations
\* type List [][2]uint: a sequence of <<from, to>> pairs.
Max2(a, b) == IF a >= b THEN a ELSE b
Min2(a, b) == IF a <= b THEN a ELSE b

\* if r1[1] >= another[r2idx][0] && r1[0] <= another[r2idx][1]
RangesOverlap(r1, r2) == r1[2] >= r2[1] /\ r1[1] <= r2[2]

\* The break test of IsOverlapping with the comparison turned around.
SecondIsBeyondFlipped(r1, r2) == r2[1] < r1[2]

\* IsOverlapping: if another[r2idx][0] > r1[1] { break }
SecondIsBeyond(r1, r2) == r2[1] > r1[2]

\* The break test of Overlap taking the start of the second range, as
\* IsOverlapping does.
SecondEndsLaterByStart(r1, r2) == r2[1] > r1[2]

\* Overlap: if another[r2idx][1] > r1[1] { break }
SecondEndsLater(r1, r2) == r2[2] > r1[2]

\* List.IsOverlapping, at range i of l (the range loop) and range r2idx of
\* another (1-based here).
RECURSIVE IsOverlappingFrom(_, _, _, _)
IsOverlappingFrom(l, another, i, r2idx) ==
    IF i > Len(l) THEN FALSE
    ELSE IF r2idx > Len(another) THEN FALSE
    ELSE IF RangesOverlap(l[i], another[r2idx]) THEN TRUE
    ELSE IF SecondIsBeyond(l[i], another[r2idx])
         THEN IsOverlappingFrom(l, another, i + 1, r2idx)
         ELSE IsOverlappingFrom(l, another, i, r2idx + 1)

ListIsOverlapping(l, another) == IsOverlappingFrom(l, another, 1, 1)

\* List.Overlap, likewise, with the overlaps collected so far.
RECURSIVE OverlapFrom(_, _, _, _, _)
OverlapFrom(l, another, i, r2idx, overlaps) ==
    IF i > Len(l) THEN overlaps
    ELSE IF r2idx > Len(another) THEN overlaps
    ELSE LET r1  == l[i]
             r2  == another[r2idx]
             acc == IF RangesOverlap(r1, r2)
                    THEN Append(overlaps, <<Max2(r1[1], r2[1]), Min2(r1[2], r2[2])>>)
                    ELSE overlaps
         IN IF SecondEndsLater(r1, r2)
            THEN OverlapFrom(l, another, i + 1, r2idx, acc)
            ELSE OverlapFrom(l, another, i, r2idx + 1, acc)

ListOverlap(l, another) == OverlapFrom(l, another, 1, 1, <<>>)

\* The rest of l after its first range: l[1:].
Tail1(l) == SubSeq(l, 2, Len(l))

\* lowestRange[0] <= lowestRange[1] in place of <.
HasMoreOrEqual(lowestRange) == lowestRange[1] <= lowestRange[2]

\* lowestRange[0] < lowestRange[1]: the lowest range holds more than one CPU.
HasMore(lowestRange) == lowestRange[1] < lowestRange[2]

\* l.Remove(): panics on the empty List, else the lowest CPU and the rest.
ListRemove(l) ==
    IF Len(l) = 0 THEN Panic("cannot remove from empty List")
    ELSE LET lowestRange == l[1]
         IN  IF HasMore(lowestRange)
             THEN [cpu |-> lowestRange[1],
                   remaining |-> <<<<lowestRange[1] + 1, lowestRange[2]>>>>
                                     \o Tail1(l)]
             ELSE [cpu |-> lowestRange[1], remaining |-> Tail1(l)]

\* ------------------------------------------------------------- NewList
\* A text is a sequence of bytes, each written as a one-character string; a
\* Bytestring is the text with a read position (0-based, as in Go).
Digits   == {"0", "1", "2", "3", "4", "5", "6", "7", "8", "9"}
DigitVal == [d \in Digits |-> CHOOSE n \in 0..9 : ToString(n) = d]

\* bs.EOL(): nothing is left to read.
EOL(b, pos) == pos >= Len(b)

\* bs.Uint64() from pos: the decimal number made of the digits that follow,
\* the position after them, and ok = at least one digit was read.
RECURSIVE Uint64From(_, _, _, _)
Uint64From(b, pos, val, ok) ==
    IF ~EOL(b, pos) /\ b[pos + 1] \in Digits
    THEN Uint64From(b, pos + 1, 10 * val + DigitVal[b[pos + 1]], TRUE)
    ELSE [val |-> val, ok |-> ok, pos |-> pos]

Uint64(b, pos) == Uint64From(b, pos, 0, FALSE)

\* The for loop of NewList with the read position at pos and the ranges l
\* parsed so far; gives the List and the error returned.
RECURSIVE NewListFrom(_, _, _)
NewListFrom(b, pos, l) ==
    IF EOL(b, pos) THEN [list |-> l, err |-> "nil"]
    ELSE
      LET from == Uint64(b, pos) IN
      IF ~from.ok
      THEN [list |-> <<>>, err |-> "expected unsigned integer number"]
      ELSE IF EOL(b, from.pos)
      THEN [list |-> Append(l, <<from.val, from.val>>), err |-> "nil"]
      ELSE
        LET ch == b[from.pos + 1] IN
        IF ch = "-"
        THEN LET to == Uint64(b, from.pos + 1)
                 more == Append(l, <<from.val, to.val>>)
             IN
             IF ~to.ok
             THEN [list |-> <<>>, err |-> "expected unsigned integer number"]
             ELSE IF EOL(b, to.pos) THEN [list |-> more, err |-> "nil"]
             ELSE IF b[to.pos + 1] # ","
             THEN [list |-> <<>>, err |-> "expected ','"]
             ELSE NewListFrom(b, to.pos + 1, more)
        ELSE IF ch = ","
        THEN NewListFrom(b, from.pos + 1, Append(l, <<from.val, from.val>>))
        ELSE [list |-> <<>>, err |-> "expected '-' or ','"]

NewList(b) == NewListFrom(b, 0, <<>>)

\* ------------------------------------------------------------ operands
MaxWords == 2   \* operand Sets have 0..MaxWords words
MaxCpu   == 4   \* operand Lists range over CPUs 0..MaxCpu
MaxTextLen == 5 \* operand texts have 0..MaxTextLen bytes

\* Words that exercise both ends of a word and a long run between them
\* (joined to bit 0, separated from bit 63), the all-ones word, and words of
\* several short ranges: 0xaa0 and 0x5a0 of the package's tests, and 0x15555.
Middle     == 1..61
InputWords ==
    {e \cup m : e \in SUBSET EdgeBits, m \in {{}, Middle}}
    \cup {AllOnes, {5, 7, 9, 11}, {5, 7, 8, 10}, {0, 2, 4, 6, 8, 10, 12, 14, 16}}

\* Set{ws[1], ..., ws[n]}
MkSet(ws) == [len |-> BigOf(Len(ws)), words |-> TrimZeros(ws)]

\* Three-word Sets of the package's tests.
TestSets ==
    { MkSet(<<{63}, {}, {}>>), MkSet(<<{}, 1..63, {1}>>),
      MkSet(<<{}, {59}, {}>>) }

InputSets ==
    UNION {{MkSet(ws) : ws \in [1..n -> InputWords]} : n \in 0..MaxWords}
    \cup TestSets

\* Arguments of AddRange: both sides of the first two word boundaries.
CpuPoints == {0, 1, 63, 64, 128}

\* Canonical Lists over lo..MaxCpu: from <= to, lowest to highest, no overlap.
RECURSIVE CanonicalFrom(_)
CanonicalFrom(lo) ==
    {<<>>} \cup
    UNION {UNION {{<<<<f, t>>>> \o rest : rest \in CanonicalFrom(t + 1)}
                   : t \in f..MaxCpu} : f \in lo..MaxCpu}

CanonicalLists == CanonicalFrom(0)

\* ------------------------------------------------------------ the kernel
\* tid 0 is the calling thread, tid 1 another live task, tid 2 no task.
Tids        == 0..2
KernelTasks == {0, 1}

\* The kernel's cpumask is a bitmap of kernelWords words. The online CPUs of
\* the machine: the first and the last CPU of every word but the last word,
\* and the first two CPUs of the last word; the other CPUs are offline.
LastWordCpus == {0, 1}
Online ==
    [i \in 1..kernelWords |-> IF i < kernelWords THEN EdgeBits ELSE LastWordCpus]

\* sched_getaffinity(2) as Affinity uses it: EINVAL when the buffer is
\* shorter than the kernel's cpumask, ESRCH when the task does not exist.
SchedGetaffinity(t, len) ==
    IF len < kernelWords THEN "EINVAL"
    ELSE IF t \notin KernelTasks THEN "ESRCH"
    ELSE "ok"

\* The zeroed buffer of len >= kernelWords words after a successful
\* sched_getaffinity on task t: the kernel copied the task's mask among the
\* online CPUs into its first words.
BufferAfter(t, len) ==
    [len   |-> BigOf(len),
     words |-> TrimZeros([i \in 1..kernelWords |->
                            And(cpusAllowed[t][i], Online[i])])]

\* The mask the kernel reads from the user's buffer: the words of the
\* buffer up to the size of its cpumask; a shorter buffer is zero-extended.
UserMask(cpus) ==
    [i \in 1..kernelWords |->
        IF i <= Len(cpus.words) THEN cpus.words[i] ELSE Zero]

\* sched_setaffinity(2): ESRCH when the task does not exist, EINVAL when the
\* mask holds no online CPU, else the task's mask becomes the online CPUs of
\* the user's mask. Gives the errno and the masks afterwards.
SchedSetaffinity(t, cpus) ==
    LET user == UserMask(cpus)
        new  == [i \in 1..kernelWords |-> And(user[i], Online[i])]
    IN
    IF t \notin KernelTasks THEN [err |-> "ESRCH", allowed |-> cpusAllowed]
    ELSE IF \A i \in 1..kernelWords : new[i] = Zero
    THEN [err |-> "EINVAL", allowed |-> cpusAllowed]
    ELSE [err |-> "ok", allowed |-> [cpusAllowed EXCEPT ![t] = new]]

\* ------------------------------------------------------------- Affinity
\* The test for EINVAL left out: every error is returned to the caller.
IsBufferTooSmallNever(e) == FALSE

\* Every error retried with a larger buffer, not only EINVAL.
IsBufferTooSmallAnyError(e) == e # "ok"

\* if e == unix.EINVAL: the one error that is retried with a larger buffer.
IsBufferTooSmall(e) == e = "EINVAL"

\* The buffer grown threefold.
GrowThreefold(len) == len * 3

\* setlen *= 2
Grow(len) == len * 2

\* A swap that compares but does not store.
CompareAndSwapNoStore(cur, old, new) ==
    [swapped |-> cur = old, val |-> cur]

\* atomic.Uint64.CompareAndSwap on a cell holding cur: whether it swapped
\* and the cell's value afterwards.
CompareAndSwap(cur, old, new) ==
    [swapped |-> cur = old, val |-> IF cur = old THEN new ELSE cur]

NoCall == [words |-> 0, err |-> "pending", set |-> EmptySet]
NoPin  == [tid |-> 0, cpus |-> EmptySet, kept |-> FALSE,
           syscalls |-> 0, err |-> "pending"]

\* No caller is inside Affinity or has called SetAffinity; every task may
\* run on every online CPU.
CallersIdle ==
    /\ cpusAllowed = [t \in KernelTasks |-> Online]
    /\ pc = [p \in Callers |-> "idle"]
    /\ tid = [p \in Callers |-> 0]
    /\ setlenStart = [p \in Callers |-> 0]
    /\ setlen = [p \in Callers |-> 0]
    /\ probes = [p \in Callers |-> 0]
    /\ buf = [p \in Callers |-> EmptySet]
    /\ ret = [p \in Callers |-> NoCall]
    /\ pin = [p \in Callers |-> NoPin]
    /\ affs = [p \in Callers |-> EmptySet]

\* func init(): setsize.Store(1).
InitAffinity ==
    /\ setsize = 1
    /\ kernelWords \in 1..MaxKernelWords
    /\ CallersIdle

\* Entry of Affinity(tid): setlenStart := setsize.Load(); setlen := setlenStart.
Call(p, t) ==
    /\ pc[p] = "idle"
    /\ tid' = [tid EXCEPT ![p] = t]
    /\ setlenStart' = [setlenStart EXCEPT ![p] = setsize]
    /\ setlen' = [setlen EXCEPT ![p] = setsize]
    /\ probes' = [probes EXCEPT ![p] = 0]
    /\ buf' = [buf EXCEPT ![p] = EmptySet]
    /\ ret' = [ret EXCEPT ![p] = NoCall]
    /\ pc' = [pc EXCEPT ![p] = "probe"]
    /\ UNCHANGED <<setsize, kernelWords, cpusAllowed, pin, affs>>

\* One pass of the outer loop: make the buffer, issue the syscall, then
\* double on EINVAL, return any other error, or go on to publish the size.
Probe(p) ==
    /\ pc[p] = "probe"
    /\ probes' = [probes EXCEPT ![p] = @ + 1]
    /\ LET e == SchedGetaffinity(tid[p], setlen[p]) IN
       IF IsBufferTooSmall(e)
       THEN /\ setlen' = [setlen EXCEPT ![p] = Grow(@)]
            /\ UNCHANGED <<pc, buf, ret>>
       ELSE IF e # "ok"
       THEN /\ ret' = [ret EXCEPT ![p] =
                         [words |-> 0, err |-> e, set |-> EmptySet]]
            /\ pc' = [pc EXCEPT ![p] = "returned"]
            /\ UNCHANGED <<setlen, buf>>
       ELSE /\ buf' = [buf EXCEPT ![p] = BufferAfter(tid[p], setlen[p])]
            /\ pc' = [pc EXCEPT ![p] = "cas"]
            /\ UNCHANGED <<setlen, ret>>
    /\ UNCHANGED <<setsize, kernelWords, cpusAllowed, tid, setlenStart,
                   pin, affs>>

\* return set, nil
Result(p) == [words |-> setlen[p], err |-> "nil", set |-> buf[p]]

\* setsize.CompareAndSwap(setlenStart, setlen); break on success.
Publish(p) ==
    /\ pc[p] = "cas"
    /\ LET r == CompareAndSwap(setsize, setlenStart[p], setlen[p]) IN
       /\ setsize' = r.val
       /\ IF r.swapped
          THEN /\ ret' = [ret EXCEPT ![p] = Result(p)]
               /\ pc' = [pc EXCEPT ![p] = "returned"]
          ELSE /\ pc' = [pc EXCEPT ![p] = "reload"]
               /\ UNCHANGED ret
    /\ UNCHANGED <<kernelWords, cpusAllowed, tid, setlenStart, setlen,
                   probes, buf, pin, affs>>

\* Reload with the load mistyped as a store of the stale local value.
ReloadStores(p) ==
    /\ pc[p] = "reload"
    /\ setsize' = setlenStart[p]
    /\ pc' = [pc EXCEPT ![p] = "cas"]
    /\ UNCHANGED <<kernelWords, cpusAllowed, tid, setlenStart, setlen,
                   probes, buf, ret, pin, affs>>

\* After a lost swap: setlenStart = setsize.Load(); break if it is larger
\* than setlen, otherwise try the swap again.
Reload(p) ==
    /\ pc[p] = "reload"
    /\ setlenStart' = [setlenStart EXCEPT ![p] = setsize]
    /\ IF setsize > setlen[p]
       THEN /\ ret' = [ret EXCEPT ![p] = Result(p)]
            /\ pc' = [pc EXCEPT ![p] = "returned"]
       ELSE /\ pc' = [pc EXCEPT ![p] = "cas"]
            /\ UNCHANGED ret
    /\ UNCHANGED <<setsize, kernelWords, cpusAllowed, tid, setlen, probes,
                   buf, pin, affs>>

\* The caller takes the result; the goroutine may call Affinity again.
Return(p) ==
    /\ pc[p] = "returned"
    /\ pc' = [pc EXCEPT ![p] = "idle"]
    /\ UNCHANGED <<setsize, kernelWords, cpusAllowed, tid, setlenStart,
                   setlen, probes, buf, ret, pin, affs>>

\* The caller takes a successful result and keeps the Set for later:
\* affs := Successful(Affinity(tid)).
Keep(p) ==
    /\ pc[p] = "returned" /\ ret[p].err = "nil"
    /\ affs' = [affs EXCEPT ![p] = ret[p].set]
    /\ pc' = [pc EXCEPT ![p] = "idle"]
    /\ UNCHANGED <<setsize, kernelWords, cpusAllowed, tid, setlenStart,
                   setlen, probes, buf, ret, pin>>

\* --------------------------------------------------------- SetAffinity
\* The length test widened to every Set without members.
IsZeroLengthOrZeroWords(cpus) == cpus.words = <<>>

\* len(cpus) == 0
IsZeroLength(cpus) == cpus.len = <<>>

\* The errno of the syscall dropped: nil whatever the kernel answered.
ErrnoDropped(e) == "nil"

\* if e != 0 { return e }; return nil
ErrnoToError(e) == IF e # "ok" THEN e ELSE "nil"

\* SetAffinity(t, cpus) (and cpus.PinTask(t)) by caller p, outside Affinity:
\* EINVAL for a zero-length Set, else one SYS_SCHED_SETAFFINITY call on the
\* len(cpus) words of cpus, whose errno is returned. pin records the call,
\* how many syscalls it issued, and whether cpus was a kept Affinity result.
SetAffinity(p, t, cpus, kept) ==
    /\ pc[p] = "idle"
    /\ IF IsZeroLength(cpus)
       THEN /\ pin' = [pin EXCEPT ![p] =
                         [tid |-> t, cpus |-> cpus, kept |-> kept,
                          syscalls |-> 0, err |-> "EINVAL"]]
            /\ UNCHANGED cpusAllowed
       ELSE LET r == SchedSetaffinity(t, cpus) IN
            /\ pin' = [pin EXCEPT ![p] =
                         [tid |-> t, cpus |-> cpus, kept |-> kept,
                          syscalls |-> 1, err |-> ErrnoToError(r.err)]]
            /\ cpusAllowed' = r.allowed
    /\ UNCHANGED <<setsize, kernelWords, pc, tid, setlenStart, setlen,
                   probes, buf, ret, affs>>

\* One goroutine locked to its thread sets and queries affinities, as the
\* package's test does. Its swap in Affinity cannot be lost, so the reload
\* after a lost swap is not among its steps.
Pinner == 1

\* Sets without members: zero length, and one to MaxWords zero words.
EmptyMasks == {MkSet([i \in 1..n |-> Zero]) : n \in 0..MaxWords}

\* Set{}.AddRange(c, c)
SingleCpu(c) == AddRange(EmptySet, c, c)

\* The Sets handed to SetAffinity.
PinSets == EmptyMasks \cup {SingleCpu(c) : c \in CpuPoints}

\* The tasks SetAffinity is called for: the calling thread, and no task.
PinTids == {0, 2}

\* --------------------------------------------- pure operations as steps
\* Each step applies one operation to operands no operation was applied to
\* yet (the operations do not modify their operands).
NoOp == [name |-> "none"]

AffinityIdle ==
    /\ setsize = 1
    /\ kernelWords = 1
    /\ CallersIdle

InitSet ==
    /\ AffinityIdle
    /\ set \in InputSets /\ set2 = EmptySet
    /\ l1 = <<>> /\ l2 = <<>> /\ text = <<>>
    /\ op = NoOp /\ out = NoOp

\* out := set.List()
DoList ==
    /\ op = NoOp
    /\ op' = [name |-> "List"]
    /\ out' = List(set)
    /\ UNCHANGED operands

\* out := set.List().Set()
DoListSet ==
    /\ op = NoOp
    /\ op' = [name |-> "List.Set"]
    /\ out' = ListSet(List(set))
    /\ UNCHANGED operands

\* out := set.AddRange(from, to)
DoAddRange(from, to) ==
    /\ op = NoOp
    /\ op' = [name |-> "AddRange", from |-> from, to |-> to]
    /\ out' = AddRange(set, from, to)
    /\ UNCHANGED operands

\* out := set.Single()
DoSingle ==
    /\ op = NoOp
    /\ op' = [name |-> "Single"]
    /\ out' = Single(set)
    /\ UNCHANGED operands

NextSet ==
    \/ DoList /\ UNCHANGED affvars
    \/ DoListSet /\ UNCHANGED affvars
    \/ \E from \in CpuPoints, to \in CpuPoints :
          DoAddRange(from, to) /\ UNCHANGED affvars
    \/ DoSingle /\ UNCHANGED affvars

SpecSet == InitSet /\ [][NextSet]_vars

InitList ==
    /\ AffinityIdle
    /\ set = EmptySet /\ set2 = EmptySet
    /\ l1 \in CanonicalLists /\ l2 \in CanonicalLists /\ text = <<>>
    /\ op = NoOp /\ out = NoOp

\* out := l1.Overlap(l2)
DoOverlap ==
    /\ op = NoOp
    /\ op' = [name |-> "Overlap"]
    /\ out' = ListOverlap(l1, l2)
    /\ UNCHANGED operands

\* out := l1.IsOverlapping(l2)
DoIsOverlapping ==
    /\ op = NoOp
    /\ op' = [name |-> "IsOverlapping"]
    /\ out' = ListIsOverlapping(l1, l2)
    /\ UNCHANGED operands

\* out := l1.Remove()
DoRemove ==
    /\ op = NoOp
    /\ op' = [name |-> "Remove"]
    /\ out' = ListRemove(l1)
    /\ UNCHANGED operands

NextList ==
    \/ DoOverlap /\ UNCHANGED affvars
    \/ DoIsOverlapping /\ UNCHANGED affvars
    \/ DoRemove /\ UNCHANGED affvars

SpecList == InitList /\ [][NextList]_vars

\* The calls that have a contract on their arguments or receiver, applied to
\* every operand Set and to the empty List.
NextContract ==
    \/ \E from \in CpuPoints, to \in CpuPoints :
          DoAddRange(from, to) /\ UNCHANGED affvars
    \/ DoRemove /\ UNCHANGED affvars

SpecContract == InitSet /\ [][NextContract]_vars

\* Operands of the operations on two Sets: Sets of up to MaxWords words with
\* either end of a word, both ends, or all of it set.
PairWords == {Zero, One, {63}, EdgeBits, AllOnes}
PairSets  ==
    UNION {{MkSet(ws) : ws \in [1..n -> PairWords]} : n \in 0..MaxWords}

InitPair ==
    /\ AffinityIdle
    /\ set \in PairSets /\ set2 \in PairSets
    /\ l1 = <<>> /\ l2 = <<>> /\ text = <<>>
    /\ op = NoOp /\ out = NoOp

\* out := set.Overlap(set2)
DoSetOverlap ==
    /\ op = NoOp
    /\ op' = [name |-> "Set.Overlap"]
    /\ out' = SetOverlap(set, set2)
    /\ UNCHANGED operands

\* out := set.IsOverlapping(set2)
DoSetIsOverlapping ==
    /\ op = NoOp
    /\ op' = [name |-> "Set.IsOverlapping"]
    /\ out' = SetIsOverlapping(set, set2)
    /\ UNCHANGED operands

NextPair ==
    \/ DoSetOverlap /\ UNCHANGED affvars
    \/ DoSetIsOverlapping /\ UNCHANGED affvars

SpecPair == InitPair /\ [][NextPair]_vars

\* Operands of the round trip from a List: every List made of some of these
\* ranges, which lie at least two CPUs apart.
RoundRanges ==
    <<<<0, 0>>, <<2, 2>>, <<4, 4>>, <<6, 6>>, <<8, 8>>, <<10, 10>>,
      <<12, 12>>, <<14, 14>>, <<16, 65>>, <<127, 128>>>>
RoundLists ==
    {SelectSeq(RoundRanges, LAMBDA r : r \in chosen) :
        chosen \in SUBSET {RoundRanges[i] : i \in 1..Len(RoundRanges)}}

InitRound ==
    /\ AffinityIdle
    /\ set = EmptySet /\ set2 = EmptySet
    /\ l1 \in RoundLists /\ l2 = <<>> /\ text = <<>>
    /\ op = NoOp /\ out = NoOp

\* out := l1.Set() and l1.Set().List()
DoSetList ==
    /\ op = NoOp
    /\ op' = [name |-> "Set.List"]
    /\ out' = LET s == ListSet(l1)
              IN [set |-> s, list |-> IF IsPanic(s) THEN s ELSE List(s)]
    /\ UNCHANGED operands

NextRound == DoSetList /\ UNCHANGED affvars

SpecRound == InitRound /\ [][NextRound]_vars

\* Operand texts of NewList: up to MaxTextLen bytes out of two digits, the
\* two separators and a letter.
TextBytes == {"1", "3", "-", ",", "z"}
Texts     == UNION {[1..n -> TextBytes] : n \in 0..MaxTextLen}

InitText ==
    /\ AffinityIdle
    /\ set = EmptySet /\ set2 = EmptySet
    /\ l1 = <<>> /\ l2 = <<>> /\ text \in Texts
    /\ op = NoOp /\ out = NoOp

\* out := NewList(text)
DoNewList ==
    /\ op = NoOp
    /\ op' = [name |-> "NewList"]
    /\ out' = NewList(text)
    /\ UNCHANGED operands

NextText == DoNewList /\ UNCHANGED affvars

SpecText == InitText /\ [][NextText]_vars

\* Draining a List: l1 is the List the caller starts from, l2 the remainder
\* it holds, out the CPUs removed so far, in the order of their removal.
InitDrain ==
    /\ AffinityIdle
    /\ set = EmptySet /\ set2 = EmptySet
    /\ l1 \in CanonicalLists /\ l2 = l1 /\ text = <<>>
    /\ op = NoOp /\ out = <<>>

\* cpu, l2 = l2.Remove(), as long as CPUs are left.
DrainStep ==
    /\ Len(l2) > 0
    /\ LET r == ListRemove(l2) IN
       /\ out' = Append(out, r.cpu)
       /\ l2' = r.remaining
    /\ op' = [name |-> "Remove"]
    /\ UNCHANGED <<set, set2, l1, text>>

NextDrain == DrainStep /\ UNCHANGED affvars

\* The caller goes on removing until the List is empty.
SpecDrain == InitDrain /\ [][NextDrain]_vars /\ WF_vars(NextDrain)

PureIdle ==
    /\ set = EmptySet /\ set2 = EmptySet
    /\ l1 = <<>> /\ l2 = <<>> /\ text = <<>>
    /\ op = NoOp /\ out = NoOp

Init == InitAffinity /\ PureIdle

Next ==
    \/ \E p \in Callers, t \in Tids : Call(p, t) /\ UNCHANGED purevars
    \/ \E p \in Callers : Probe(p) /\ UNCHANGED purevars
    \/ \E p \in Callers : Publish(p) /\ UNCHANGED purevars
    \/ \E p \in Callers : Reload(p) /\ UNCHANGED purevars
    \/ \E p \in Callers : Return(p) /\ UNCHANGED purevars

Spec == Init /\ [][Next]_vars

\* Goroutines inside Affinity keep running: the Go scheduler is preemptive
\* and the syscall is non-blocking, so every pending step is eventually taken.
\* Starting a new call (Call) is the caller's choice and is not forced.
FairSpec ==
    /\ Spec
    /\ \A p \in Callers :
          /\ WF_vars(Probe(p) /\ UNCHANGED purevars)
          /\ WF_vars(Publish(p) /\ UNCHANGED purevars)
          /\ WF_vars(Reload(p) /\ UNCHANGED purevars)
          /\ WF_vars(Return(p) /\ UNCHANGED purevars)

NextPin ==
    \/ \E t \in Tids : Call(Pinner, t) /\ UNCHANGED purevars
    \/ Probe(Pinner) /\ UNCHANGED purevars
    \/ Publish(Pinner) /\ UNCHANGED purevars
    \/ Return(Pinner) /\ UNCHANGED purevars
    \/ Keep(Pinner) /\ UNCHANGED purevars
    \/ \E t \in PinTids, cpus \in PinSets :
          SetAffinity(Pinner, t, cpus, FALSE) /\ UNCHANGED purevars
    \/ \E t \in PinTids :
          /\ ~IsZeroLength(affs[Pinner])
          /\ SetAffinity(Pinner, t, affs[Pinner], TRUE)
          /\ UNCHANGED purevars

SpecPin == Init /\ [][NextPin]_vars

\* ---------------------------------------------------------------- C1
\* C1: the shared size cache never decreases: every step of every
\* interleaving of Affinity calls leaves setsize at least as large as it was,
\* starting from the initial value 1.
CacheNeverDecreases == [][setsize' >= setsize]_vars

\* A caller's swap has replaced the initial 1 by a larger size.
CacheWasGrown ==
    /\ setsize > 1
    /\ \E p \in Callers : pc[p] = "returned" /\ ret[p].err = "nil"

\* ---------------------------------------------------------------- C2
\* C2: a call for an existing task never returns EINVAL, and once it has
\* started probing it eventually returns successfully with a buffer of at
\* least kernelWords words, whatever the other callers do.
ProbingConverges ==
    /\ [](\A p \in Callers : ret[p].err # "EINVAL")
    /\ \A p \in Callers :
          (pc[p] = "probe" /\ tid[p] \in KernelTasks)
             ~> (pc[p] = "returned" /\ ret[p].err = "nil"
                 /\ ret[p].words >= kernelWords)

\* A call that was answered EINVAL at least once has returned successfully.
ReturnedAfterRetry ==
    \E p \in Callers :
        /\ pc[p] = "returned" /\ ret[p].err = "nil"
        /\ probes[p] >= 2 /\ ret[p].words >= kernelWords

\* ---------------------------------------------------------------- C3
\* C3: when a call has returned successfully with a buffer of n words, the
\* shared size cache holds a value >= n (its own swap stored n, or it saw a
\* larger value stored by another caller).
PublishedSizeIsKept ==
    \A p \in Callers :
        (pc[p] = "returned" /\ ret[p].err = "nil") => setsize >= ret[p].words

\* A caller that lost the swap race has returned: it doubled its buffer, so
\* its setlenStart can equal setlen only after the reload of a lost swap.
LoserReturned ==
    \E p \in Callers :
        /\ pc[p] = "returned" /\ ret[p].err = "nil"
        /\ probes[p] >= 2 /\ setlenStart[p] = setlen[p]

\* ----------------------------------------------------------- membership
\* The CPUs on which two Sets can differ: those of their stored words, and
\* those of one word more.
CpusOf(a, b) == 0..(bitsperword * (Max2(Len(a.words), Len(b.words)) + 1))

Members(s) == {c \in CpusOf(s, s) : IsSet(s, c)}

InList(l, c) == \E i \in 1..Len(l) : l[i][1] <= c /\ c <= l[i][2]

\* ---------------------------------------------------------------- C4
\* C4: for every Set s, s.List().Set() is a Set with exactly the member CPUs
\* of s: IsSet(c) agrees on both for every CPU c.
RoundTripKeepsMembers ==
    op.name = "List.Set" =>
        /\ ~IsPanic(out)
        /\ \A c \in CpusOf(set, set) : IsSet(out, c) <=> IsSet(set, c)

\* ---------------------------------------------------------------- C5
\* C5: s.List() is the minimal canonical range list of s: a CPU lies in a
\* returned range iff it is a member of s, every range has from <= to, and
\* each next range starts at least two above the end of the one before.
ListIsCanonical ==
    op.name = "List" =>
        /\ \A c \in CpusOf(set, set) : InList(out, c) <=> IsSet(set, c)
        /\ \A i \in 1..Len(out) :
              /\ out[i][1] <= out[i][2]
              /\ out[i][2] < bitsperword * Len(set.words)
        /\ \A i \in 1..(Len(out) - 1) : out[i + 1][1] >= out[i][2] + 2
        /\ (set.words = <<>>) => out = <<>>

\* Set{^0, 1} gave [[0,64]], one range across the word boundary.
ListCrossedBoundary ==
    /\ op.name = "List"
    /\ set = MkSet(<<AllOnes, One>>)
    /\ out = <<<<0, 64>>>>

\* ---------------------------------------------------------------- C6
\* C6: for from <= to, r = s.AddRange(from, to) has as members exactly the
\* members of s and the CPUs of from..to.
AddRangeAddsExactlyRange ==
    (op.name = "AddRange" /\ op.from <= op.to) =>
        /\ ~IsPanic(out)
        /\ \A c \in CpusOf(set, out) :
              IsSet(out, c) <=> (IsSet(set, c) \/ (op.from <= c /\ c <= op.to))

\* A range across a word boundary and beyond the receiver's length was added
\* to a Set that had members of its own.
AddRangeGrewSet ==
    /\ op.name = "AddRange" /\ op.from = 63 /\ op.to = 128
    /\ ~IsPanic(out)
    /\ Len(set.words) = 1 /\ Members(set) # {}
    /\ Members(set) \ (63..128) # {}
    /\ Members(out) = Members(set) \cup (63..128)

OverlapCommutes ==
    op.name = "Overlap" => out = ListOverlap(l2, l1)

\* A non-empty overlap of two different Lists with different range counts.
OverlapOfDifferentLists ==
    /\ op.name = "Overlap"
    /\ Len(l1) # Len(l2) /\ Len(out) >= 2

SingleIsSoleMember ==
    op.name = "Single" =>
        IF Cardinality(Members(set)) = 1
        THEN out = [cpu |-> CHOOSE c \in Members(set) : TRUE, ok |-> TRUE]
        ELSE out = [cpu |-> 0, ok |-> FALSE]

\* The single CPU sat in the second word, between all-zero words.
SingleInMiddleWord ==
    /\ op.name = "Single"
    /\ set = MkSet(<<Zero, {59}, Zero>>)
    /\ out = [cpu |-> 123, ok |-> TRUE]

\* --------------------------------------------------------------- C11
\* C11: for a non-empty canonical List l, l.Remove() returns (c, rem) where
\* c is the from of the first range and rem holds the CPUs of l except c: the
\* first range becomes [c+1, to] when it held more than one CPU and is
\* dropped when it held only c; the other ranges are unchanged.
RemoveTakesLowest ==
    (op.name = "Remove" /\ Len(l1) > 0) =>
        /\ ~IsPanic(out)
        /\ out.cpu = l1[1][1]
        /\ \A c \in 0..(MaxCpu + 1) :
              InList(out.remaining, c) <=> (InList(l1, c) /\ c # out.cpu)
        /\ out.remaining =
              IF l1[1][1] # l1[1][2]
              THEN <<<<l1[1][1] + 1, l1[1][2]>>>> \o Tail1(l1)
              ELSE Tail1(l1)
        /\ \A i \in 1..Len(out.remaining) :
              out.remaining[i][1] <= out.remaining[i][2]

\* The lowest range was a single CPU and was dropped, other ranges remain.
RemoveDroppedRange ==
    /\ op.name = "Remove"
    /\ Len(l1) >= 2 /\ l1[1][1] = l1[1][2]
    /\ ~IsPanic(out)
    /\ out.remaining = Tail1(l1)

\* --------------------------------------------------------------- C12
\* C12: AddRange(from, to) with from > to panics for every receiver Set and
\* Remove() on the empty List panics; neither call returns a Set, a CPU
\* number or a remainder.
ContractViolationsPanic ==
    /\ (op.name = "AddRange" /\ op.from > op.to) =>
           out = Panic("invalid range")
    /\ (op.name = "Remove" /\ Len(l1) = 0) =>
           out = Panic("cannot remove from empty List")

\* AddRange was called with from > to on a Set with members in two words.
AddRangePanicked ==
    /\ op.name = "AddRange" /\ op.from = 64 /\ op.to = 63
    /\ Len(set.words) = 2 /\ set.words[1] # Zero
    /\ IsPanic(out)

\* --------------------------------------------------------------- C13
\* C13: SetAffinity (and Set.PinTask) returns an error for every Set without
\* members, of zero length or of zero words only: a request to remove all
\* affinity is never reported as a success.
EmptySetIsRefused ==
    \A p \in Callers :
        (pin[p].err # "pending" /\ pin[p].cpus.words = <<>>) =>
            pin[p].err # "nil"

\* SetAffinity was called for a live task with a Set of zero words only.
ZeroWordsRefused ==
    /\ pin[Pinner].err = "EINVAL" /\ pin[Pinner].tid \in KernelTasks
    /\ pin[Pinner].cpus = MkSet(<<Zero>>)

\* --------------------------------------------------------------- C14
\* C14 as claimed: a Set without members, of zero length or of zero words
\* only, is rejected by SetAffinity before the OS call: the error is EINVAL
\* and no SYS_SCHED_SETAFFINITY call is issued.
EmptyMaskRejectedBeforeCall ==
    \A p \in Callers :
        (pin[p].err # "pending" /\ pin[p].cpus.words = <<>>) =>
            /\ pin[p].err = "EINVAL"
            /\ pin[p].syscalls = 0

\* C14 as the code has it: only the zero-length Set is rejected before the
\* OS call (EINVAL, no syscall issued). Every other Set, the Sets of zero
\* words only among them, is handed to the kernel in exactly one syscall, and
\* for a Set of zero words the error returned is the kernel's: EINVAL for a
\* live task, ESRCH for a task that does not exist.
ZeroLengthRejectedBeforeCall ==
    \A p \in Callers :
        pin[p].err # "pending" =>
            IF pin[p].cpus.len = <<>>
            THEN pin[p].err = "EINVAL" /\ pin[p].syscalls = 0
            ELSE /\ pin[p].syscalls = 1
                 /\ pin[p].cpus.words = <<>> =>
                       pin[p].err = IF pin[p].tid \in KernelTasks
                                    THEN "EINVAL" ELSE "ESRCH"

\* A Set of two zero words reached the kernel, which refused it.
ZeroWordsReachedKernel ==
    /\ pin[Pinner].cpus = MkSet(<<Zero, Zero>>)
    /\ pin[Pinner].syscalls = 1
    /\ pin[Pinner].err = "EINVAL"

\* --------------------------------------------------------------- C15
\* C15: when the syscall of a probe fails with an error other than EINVAL,
\* that probe is the call's last: Affinity returns that same error with a
\* nil Set, the probe size is not grown, and no further syscall is issued
\* for the invocation.
OtherErrorEndsCall ==
    [][\A p \in Callers :
        LET e == SchedGetaffinity(tid[p], setlen[p]) IN
        /\ (pc[p] = "probe" /\ probes'[p] = probes[p] + 1
                /\ e \notin {"ok", "EINVAL"}) =>
              /\ pc'[p] = "returned"
              /\ ret'[p] = [words |-> 0, err |-> e, set |-> EmptySet]
              /\ setlen'[p] = setlen[p]
        /\ (pc[p] = "returned" /\ ret[p].err # "nil") =>
              /\ probes'[p] = probes[p]
              /\ setlen'[p] = setlen[p]
              /\ pc'[p] \in {"returned", "idle"}]_vars

\* A call for a task that does not exist was answered EINVAL first and
\* ESRCH by the next, larger probe, and returned ESRCH.
ReturnedEsrchAfterRetry ==
    \E p \in Callers :
        /\ pc[p] = "returned" /\ ret[p].err = "ESRCH"
        /\ tid[p] \notin KernelTasks
        /\ probes[p] >= 2 /\ setlen[p] > setlenStart[p]

\* --------------------------------------------------------------- C16
\* C16: after SetAffinity(tid, S) has succeeded for S = Set{}.AddRange(c, c),
\* an Affinity(tid) call succeeds and the List() of its result is exactly
\* [[c,c]], whatever the number of words of the buffer; and setting a Set
\* kept from an earlier Affinity result again succeeds for a live task.
SetThenGet ==
    \A p \in Callers :
        /\ \A c \in CpuPoints :
              (/\ pin[p].err = "nil" /\ pin[p].cpus = SingleCpu(c)
               /\ pc[p] = "returned" /\ tid[p] = pin[p].tid) =>
                  /\ ret[p].err = "nil"
                  /\ List(ret[p].set) = <<<<c, c>>>>
        /\ (pin[p].kept /\ pin[p].tid \in KernelTasks) => pin[p].err = "nil"

\* The thread was pinned to CPU 64 with a Set of two words, and Affinity
\* answered with a buffer of four words.
GotPinnedCpuInWiderBuffer ==
    /\ pin[Pinner].err = "nil" /\ pin[Pinner].cpus = SingleCpu(64)
    /\ pc[Pinner] = "returned" /\ tid[Pinner] = pin[Pinner].tid
    /\ ret[Pinner].err = "nil" /\ ret[Pinner].words = 4
    /\ List(ret[Pinner].set) = <<<<64, 64>>>>

\* --------------------------------------------------------------- C17
\* The number of words of an operand Set.
LenOf(s) == CHOOSE n \in 0..(MaxWords + 1) : BigOf(n) = s.len

\* C17: s.Overlap(t) has exactly min(len(s), len(t)) words, each the
\* bitwise AND of the words of s and t at its position; a CPU is a member of
\* the result iff it is a member of both; s and t are not modified.
SetOverlapIsWordwiseAnd ==
    /\ [](op.name = "Set.Overlap" =>
            /\ out.len = BigOf(Min2(LenOf(set), LenOf(set2)))
            /\ \A idx \in 0..(Min2(LenOf(set), LenOf(set2)) - 1) :
                  Word(out, idx) = Word(set, idx) \cap Word(set2, idx)
            /\ \A c \in CpusOf(set, set2) :
                  IsSet(out, c) <=> (IsSet(set, c) /\ IsSet(set2, c)))
    /\ [][set' = set /\ set2' = set2]_vars

\* A Set of one word and a Set of two words shared CPU 63 but not CPU 0.
SetOverlapOfUnequalLengths ==
    /\ op.name = "Set.Overlap"
    /\ set = MkSet(<<EdgeBits>>) /\ set2 = MkSet(<<{63}, One>>)
    /\ out = MkSet(<<{63}>>)

\* --------------------------------------------------------------- C18
\* C18: s.IsOverlapping(t) is true iff some CPU is a member of both s and
\* t, the positions beyond the shorter Set counting as absent; and it equals
\* t.IsOverlapping(s).
SetIsOverlappingIffCommonCpu ==
    op.name = "Set.IsOverlapping" =>
        /\ out <=> (\E c \in CpusOf(set, set2) : IsSet(set, c) /\ IsSet(set2, c))
        /\ out <=> SetIsOverlapping(set2, set)

\* The first words were both non-zero without a common CPU; the second
\* words had one.
SetsOverlappedInSecondWord ==
    /\ op.name = "Set.IsOverlapping" /\ out = TRUE
    /\ Len(set.words) = 2 /\ Len(set2.words) = 2
    /\ set.words[1] # Zero /\ set2.words[1] # Zero
    /\ set.words[1] \cap set2.words[1] = {}

\* --------------------------------------------------------------- C19
\* C19: for every canonical List l whose ranges are not adjacent,
\* l.Set().List() equals l, the members of l.Set() are exactly the CPUs of
\* the ranges of l, and List{}.Set() is the empty Set.
ListRoundTripIsIdentity ==
    op.name = "Set.List" =>
        /\ ~IsPanic(out.set)
        /\ out.list = l1
        /\ \A c \in 0..(2 * bitsperword + 1) :
              IsSet(out.set, c) <=> InList(l1, c)
        /\ (l1 = <<>>) => out.set = EmptySet

\* --------------------------------------------------------------- C20
\* C20: for every text NewList returns a parse error or a List in which
\* every range has from <= to: a token a-b with a > b never yields a List
\* with a range that AddRange (and so Set()) takes for a contract violation.
NewListIsWellFormedOrError ==
    op.name = "NewList" =>
        \/ out.err # "nil"
        \/ \A i \in 1..Len(out.list) :
              /\ out.list[i][1] <= out.list[i][2]
              /\ ~IsInvalidRange(out.list[i][1], out.list[i][2])

\* --------------------------------------------------------------- C21
\* C21: for a receiver of n words and from <= to, s.AddRange(from, to)
\* returns a Set of exactly max(n, to/64 + 1) words: a receiver that already
\* covers to keeps its word count.
AddRangeGrowsToMinimum ==
    (op.name = "AddRange" /\ op.from <= op.to) =>
        /\ ~IsPanic(out)
        /\ out.len = BigOf(Max2(LenOf(set), op.to \div bitsperword + 1))

\* --------------------------------------------------------------- C22
\* C22: for every non-empty canonical List l with highest range end T,
\* l.Set() has exactly T/64 + 1 words: the word count reached after the
\* highest range was inserted (that of the Set of the highest range alone)
\* does not change while the lower ranges are inserted, however many ranges
\* l has.
ListSetIsSizedOnce ==
    (op.name = "Set.List" /\ Len(l1) > 0) =>
        LET highest == l1[Len(l1)] IN
        /\ ~IsPanic(out.set)
        /\ out.set.len = BigOf(highest[2] \div bitsperword + 1)
        /\ out.set.len = ListSet(<<highest>>).len

\* --------------------------------------------------------------- C23
\* The powers of two up to the first that is >= MaxKernelWords, and beyond.
PowersOfTwo == {2 ^ k : k \in 0..(MaxKernelWords + NumCallers)}

\* The smallest power of two >= r.
Pow2AtLeast(r) ==
    CHOOSE n \in PowersOfTwo : n >= r /\ \A m \in PowersOfTwo : m >= r => n <= m

\* C23: against a kernel that needs kernelWords words, in every reachable
\* state the size cache is a power of two not above the smallest power of
\* two >= kernelWords, and every buffer size a call probes (setlen of a
\* caller about to issue the syscall) is the cache value it read on entry
\* times two to the number of probes it issued so far.
CacheIsBoundedPowerOfTwo ==
    /\ setsize \in PowersOfTwo
    /\ setsize <= Pow2AtLeast(kernelWords)
    /\ \A p \in Callers :
          pc[p] = "probe" =>
             /\ setlenStart[p] \in PowersOfTwo
             /\ setlen[p] = setlenStart[p] * 2 ^ probes[p]
             /\ setlen[p] <= Pow2AtLeast(kernelWords)

\* The kernel needs three words and the cache was grown to four by one
\* caller while another, entered at cache value 1, is about to probe with 2.
CacheGrownWhileOtherProbes ==
    /\ kernelWords = 3 /\ setsize = 4
    /\ \E p \in Callers :
          pc[p] = "probe" /\ setlenStart[p] = 1 /\ setlen[p] = 2

\* --------------------------------------------------------------- C24
\* The CPUs of the ranges of a List.
CpusOfList(l) == {c \in 0..(MaxCpu + 1) : InList(l, c)}

\* from <= to in every range, the ranges lowest to highest, none overlapping.
IsCanonicalList(l) ==
    /\ \A i \in 1..Len(l) : l[i][1] <= l[i][2]
    /\ \A i \in 1..(Len(l) - 1) : l[i][2] < l[i + 1][1]

\* C24: starting from a canonical List of N CPUs and feeding each remainder
\* into the next Remove, the calls return the CPUs in strictly ascending
\* order, each CPU of the List once; every remainder is canonical and holds
\* the CPUs not yet returned; the remainder is empty after exactly N calls
\* and not earlier, which the caller reaches; and the List the caller
\* started from is not changed by any call.
RemoveDrainsInOrder ==
    /\ [](/\ \A i \in 1..(Len(out) - 1) : out[i] < out[i + 1]
          /\ {out[i] : i \in 1..Len(out)} \cup CpusOfList(l2) = CpusOfList(l1)
          /\ {out[i] : i \in 1..Len(out)} \cap CpusOfList(l2) = {}
          /\ IsCanonicalList(l2)
          /\ Len(out) <= Cardinality(CpusOfList(l1))
          /\ (l2 = <<>>) <=> (Len(out) = Cardinality(CpusOfList(l1))))
    /\ [][l1' = l1 /\ out'[Len(out')] = l2[1][1]]_vars
    /\ <>(l2 = <<>> /\ Len(out) = Cardinality(CpusOfList(l1)))

\* A List of two ranges, one of them of three CPUs, was drained by four calls.
DrainedTwoRanges ==
    /\ Len(l1) = 2 /\ l1[1][1] + 2 = l1[1][2]
    /\ l2 = <<>> /\ Len(out) = 4

====
